---- MODULE Spec2Model ----
(***************************************************************************)
(* Model of the loan-application review dashboard                          *)
(* (components/loan-application-dashboard.tsx) and of the ratio and risk   *)
(* evaluator its data stands for.                                          *)
(*                                                                         *)
(* Text that is taken apart or put together character by character (ratio  *)
(* names, values, thresholds, risk flags, the formatted date) is a tuple   *)
(* of one-character strings.  The two non-ASCII characters of the source   *)
(* are written as one element each: "<=" stands for U+2264 and ">=" for    *)
(* U+2265.  Text that is only displayed is a plain string.                 *)
(***************************************************************************)
EXTENDS Integers, Sequences, FiniteSets, TLC

VARIABLES
    auditTrailOpen,   \* useState(false), line 23
    rendered,         \* what the last render of the component returned
    clock,            \* the wall clock new Date() reads, in ticks
    toggles,          \* history: open-change events since the component mounted
    lastEvent,        \* history: the value the last open-change event reported
    record,           \* the borrower record handed to the evaluator
    result            \* what the evaluator returned for it

vars == <<auditTrailOpen, rendered, clock, toggles, lastEvent, record, result>>

(***************************************************************************)
(* Bounds of the model.                                                    *)
(***************************************************************************)
MaxToggles == 5
MaxClock == 7
TicksPerDay == 2

\* lastEvent is <<>> before any event and <<v>> after an event reporting v.
NoEvent == <<>>

(***************************************************************************)
(* The data the component builds on every render.                          *)
(***************************************************************************)
borrowerData ==
    [ name           |-> "[REDACTED]",
      employmentType |-> "Self-employed",
      annualIncome   |-> 85000,
      monthlyDebt    |-> 1200 ]

\* financialRatios with the DSCR row's status mistyped.
financialRatiosStatusSlip ==
    << [ name      |-> <<"D","T","I">>,
         value     |-> <<"3","6","%">>,
         status    |-> "pass",
         threshold |-> <<"<="," ","4","3","%">> ],
       [ name      |-> <<"D","S","C","R">>,
         value     |-> <<"0",".","9","5">>,
         status    |-> "pass",
         threshold |-> <<">="," ","1",".","2">> ],
       [ name      |-> <<"L","T","V">>,
         value     |-> <<"7","8","%">>,
         status    |-> "pass",
         threshold |-> <<"<="," ","8","0","%">> ] >>

financialRatios ==
    << [ name      |-> <<"D","T","I">>,
         value     |-> <<"3","6","%">>,
         status    |-> "pass",
         threshold |-> <<"<="," ","4","3","%">> ],
       [ name      |-> <<"D","S","C","R">>,
         value     |-> <<"0",".","9","5">>,
         status    |-> "fail",
         threshold |-> <<">="," ","1",".","2">> ],
       [ name      |-> <<"L","T","V">>,
         value     |-> <<"7","8","%">>,
         status    |-> "pass",
         threshold |-> <<"<="," ","8","0","%">> ] >>

\* riskFlags with the DSCR flag left out.
riskFlagsNoDscr ==
    << <<"S","e","l","f","-","e","m","p","l","o","y","e","d"," ","i","n","c",
         "o","m","e"," ","w","i","t","h","o","u","t"," ","2","-","y","e","a",
         "r"," ","p","r","o","o","f">> >>

riskFlags ==
    << <<"D","S","C","R"," ","b","e","l","o","w"," ","t","h","r","e","s","h",
         "o","l","d"," ","(","R","e","q","u","i","r","e","d"," ",">="," ","1",
         ".","2",")">>,
       <<"S","e","l","f","-","e","m","p","l","o","y","e","d"," ","i","n","c",
         "o","m","e"," ","w","i","t","h","o","u","t"," ","2","-","y","e","a",
         "r"," ","p","r","o","o","f">> >>

\* The badge reading as a denial, and as an approval.
LoanDecisionBadgeDeny == "Denied"

LoanDecisionBadgeApprove == "Approved"

\* The badge and headline of the Loan Decision card.
LoanDecisionBadge == "Conditional Approval"

LoanDecisionHeadline == "Conditionally Approve (Pending more documents)"

\* The text under "Suggested Follow-up:", whose first and last characters are
\* quotation marks.
SuggestedFollowUp ==
    "\"Please upload business bank statements from the last 6 months to verify self-employment income.\""

(***************************************************************************)
(* new Date().toLocaleDateString(): the date of the clock reading, the     *)
(* time of day dropped, written month/day/year.  The model's clock starts  *)
(* at midnight of 1/1/2025 and stays within January.                       *)
(***************************************************************************)
DigitChars == <<"0","1","2","3","4","5","6","7","8","9">>

RECURSIVE ToDigits(_)
ToDigits(n) ==
    IF n < 10 THEN <<DigitChars[n + 1]>>
    ELSE ToDigits(n \div 10) \o <<DigitChars[(n % 10) + 1]>>

\* A date kept with the application instead of read from the clock.
toLocaleDateStringStored(now) ==
    <<"1","/","1","/","2","0","2","5">>

toLocaleDateString(now) ==
    <<"1","/">> \o ToDigits((now \div TicksPerDay) + 1) \o <<"/","2","0","2","5">>

(***************************************************************************)
(* One render of LoanApplicationDashboard: the data above, recomputed, and *)
(* the parts of the markup that depend on state or on the clock.           *)
(***************************************************************************)
\* A render whose risk flags and decision depend on the component's state.
RenderStateful(open, now) ==
    [ borrower     |-> borrowerData,
      ratios       |-> financialRatios,
      flags        |-> IF open THEN <<>> ELSE riskFlags,
      badge        |-> IF open THEN "Approved" ELSE LoanDecisionBadge,
      headline     |-> LoanDecisionHeadline,
      followUp     |-> SuggestedFollowUp,
      chevron      |-> IF open THEN "ChevronDown" ELSE "ChevronRight",
      contentShown |-> open,
      submitted    |-> toLocaleDateString(now) ]

\* A render that drops the follow-up text and the borrower's debt while the
\* audit trail is open.
RenderOpenHidesFollowUp(open, now) ==
    [ borrower     |-> IF open THEN [borrowerData EXCEPT !.monthlyDebt = 0]
                       ELSE borrowerData,
      ratios       |-> financialRatios,
      flags        |-> riskFlags,
      badge        |-> LoanDecisionBadge,
      headline     |-> LoanDecisionHeadline,
      followUp     |-> IF open THEN "" ELSE SuggestedFollowUp,
      chevron      |-> IF open THEN "ChevronDown" ELSE "ChevronRight",
      contentShown |-> open,
      submitted    |-> toLocaleDateString(now) ]

Render(open, now) ==
    [ borrower     |-> borrowerData,
      ratios       |-> financialRatios,
      flags        |-> riskFlags,
      badge        |-> LoanDecisionBadge,
      headline     |-> LoanDecisionHeadline,
      followUp     |-> SuggestedFollowUp,
      chevron      |-> IF open THEN "ChevronDown" ELSE "ChevronRight",
      contentShown |-> open,
      submitted    |-> toLocaleDateString(now) ]

(***************************************************************************)
(* The ratio and risk evaluator the dashboard's data stands for.  The      *)
(* dashboard does not call it; it is modelled from its description.  A     *)
(* borrower record is a function from the names of the fields it carries   *)
(* to amounts; an optional field that is absent is not in its domain.      *)
(* Percentages and the DSCR are kept in hundredths.                        *)
(***************************************************************************)
NotEvaluated == [ kind |-> "none", field |-> "", ratios |-> <<>> ]

Has(rec, f) == f \in DOMAIN rec

\* Division as the host language performs it: a zero divisor gives NaN or an
\* infinity, never an error.  Finite quotients are rounded half up.
Quotient(num, den) ==
    IF den = 0
    THEN IF num = 0 THEN [ kind |-> "NaN", n |-> 0 ]
         ELSE IF num > 0 THEN [ kind |-> "Infinity", n |-> 0 ]
         ELSE [ kind |-> "-Infinity", n |-> 0 ]
    ELSE IF den > 0
         THEN [ kind |-> "number", n |-> (2 * num + den) \div (2 * den) ]
         ELSE [ kind |-> "number", n |-> (-(2 * num) - den) \div (-(2 * den)) ]

\* The threshold table: ratio -> direction and threshold in hundredths.
Thresholds ==
    [ DTI               |-> [ direction |-> "<=", threshold |-> 2800 ],
      LTV               |-> [ direction |-> "<=", threshold |-> 8000 ],
      CreditUtilization |-> [ direction |-> "<=", threshold |-> 3000 ],
      DSCR              |-> [ direction |-> ">=", threshold |-> 120 ] ]

classify(name, value) ==
    IF value.kind # "number" THEN "fail"
    ELSE IF Thresholds[name].direction = "<="
         THEN IF value.n <= Thresholds[name].threshold THEN "pass" ELSE "fail"
         ELSE IF value.n >= Thresholds[name].threshold THEN "pass" ELSE "fail"

RatioResult(name, value) ==
    [ name      |-> name,
      value     |-> value,
      threshold |-> Thresholds[name],
      status    |-> classify(name, value) ]

\* The first denominator of the record that is not a positive amount, in the
\* order the ratios are computed; "" when there is none.
DenominatorFields ==
    <<"annualIncome", "propertyValue", "totalRevolvingLimit", "debtService">>

\* A guard that lets a negative denominator through.
OffendingFieldZeroOnly(rec) ==
    LET bad == { i \in DOMAIN DenominatorFields :
                    /\ Has(rec, DenominatorFields[i])
                    /\ rec[DenominatorFields[i]] = 0 }
    IN  IF bad = {} THEN ""
        ELSE DenominatorFields[CHOOSE i \in bad : \A j \in bad : i <= j]

OffendingField(rec) ==
    LET bad == { i \in DOMAIN DenominatorFields :
                    /\ Has(rec, DenominatorFields[i])
                    /\ rec[DenominatorFields[i]] <= 0 }
    IN  IF bad = {} THEN ""
        ELSE DenominatorFields[CHOOSE i \in bad : \A j \in bad : i <= j]

\* computeRatios(record): an InvalidInputError naming the offending field, or
\* one RatioResult per ratio whose fields the record carries.
computeRatios(rec) ==
    IF OffendingField(rec) # ""
    THEN [ kind |-> "InvalidInputError", field |-> OffendingField(rec), ratios |-> <<>> ]
    ELSE [ kind   |-> "ok",
           field  |-> "",
           ratios |->
             <<RatioResult("DTI", Quotient(rec.monthlyDebt * 12 * 10000, rec.annualIncome))>>
             \o (IF Has(rec, "loanAmount") /\ Has(rec, "propertyValue")
                 THEN <<RatioResult("LTV", Quotient(rec.loanAmount * 10000, rec.propertyValue))>>
                 ELSE <<>>)
             \o (IF Has(rec, "outstandingRevolvingBalance") /\ Has(rec, "totalRevolvingLimit")
                 THEN <<RatioResult("CreditUtilization",
                            Quotient(rec.outstandingRevolvingBalance * 10000,
                                     rec.totalRevolvingLimit))>>
                 ELSE <<>>)
             \o (IF Has(rec, "netOperatingIncome") /\ Has(rec, "debtService")
                 THEN <<RatioResult("DSCR",
                            Quotient(rec.netOperatingIncome * 100, rec.debtService))>>
                 ELSE <<>>) ]

\* The records the evaluator is tried on, amounts in hundreds of dollars.
IncomeValues == {-500, 0, 850}

DebtValues == {0, 12, 30}

CollateralValues ==
    { << >> } \cup
    { ("loanAmount" :> 3120) @@ ("propertyValue" :> v) : v \in {-1, 0, 3000, 4000} }

CreditValues ==
    { << >> } \cup
    { ("outstandingRevolvingBalance" :> b) @@ ("totalRevolvingLimit" :> l) :
        b \in {0, 40}, l \in {0, 100} }

CashFlowValues ==
    { << >> } \cup
    { ("netOperatingIncome" :> n) @@ ("debtService" :> d) :
        n \in {95, 150}, d \in {0, 100} }

Records ==
    { ("annualIncome" :> a) @@ ("monthlyDebt" :> m) @@ c @@ u @@ f :
        a \in IncomeValues, m \in DebtValues, c \in CollateralValues,
        u \in CreditValues, f \in CashFlowValues }

InitEval ==
    /\ auditTrailOpen = FALSE
    /\ clock = 0
    /\ rendered = Render(FALSE, 0)
    /\ toggles = 0
    /\ lastEvent = NoEvent
    /\ record \in Records
    /\ result = NotEvaluated

Evaluate ==
    /\ result = NotEvaluated
    /\ result' = computeRatios(record)
    /\ UNCHANGED <<auditTrailOpen, rendered, clock, toggles, lastEvent, record>>

NextEval == Evaluate

SpecEval == InitEval /\ [][NextEval]_vars

(***************************************************************************)
(* State machine of the mounted component.                                 *)
(***************************************************************************)
Init ==
    /\ auditTrailOpen = FALSE
    /\ clock = 0
    /\ rendered = Render(FALSE, 0)
    /\ toggles = 0
    /\ lastEvent = NoEvent
    /\ record = [ annualIncome |-> borrowerData.annualIncome \div 100,
                  monthlyDebt  |-> borrowerData.monthlyDebt \div 100 ]
    /\ result = NotEvaluated

\* A handler that only ever opens.
OnOpenChangeSticky(open) ==
    /\ toggles < MaxToggles
    /\ auditTrailOpen' = TRUE
    /\ rendered' = Render(TRUE, clock)
    /\ toggles' = toggles + 1
    /\ lastEvent' = <<open>>
    /\ UNCHANGED <<clock, record, result>>

\* onOpenChange={setAuditTrailOpen}: the state takes the reported value and
\* the component renders again.
OnOpenChange(open) ==
    /\ toggles < MaxToggles
    /\ auditTrailOpen' = open
    /\ rendered' = Render(open, clock)
    /\ toggles' = toggles + 1
    /\ lastEvent' = <<open>>
    /\ UNCHANGED <<clock, record, result>>

\* A click on the CollapsibleTrigger: the controlled Collapsible reports the
\* negation of its open prop.
TriggerClick == OnOpenChange(~auditTrailOpen)

\* The page mounts the component anew (a reload): state starts over and the
\* component renders at the current clock reading.
Mount ==
    /\ auditTrailOpen' = FALSE
    /\ rendered' = Render(FALSE, clock)
    /\ toggles' = 0
    /\ lastEvent' = NoEvent
    /\ UNCHANGED <<clock, record, result>>

\* Time passes; nothing renders.
Tick ==
    /\ clock < MaxClock
    /\ clock' = clock + 1
    /\ UNCHANGED <<auditTrailOpen, rendered, toggles, lastEvent, record, result>>

Next == TriggerClick \/ Mount \/ Tick

Spec == Init /\ [][Next]_vars

(***************************************************************************)
(* Reading the displayed texts: a value or threshold number in hundredths  *)
(* ("36%" is 3600, "0.95" is 95, "1.2" is 120), a threshold's direction,   *)
(* and the decision a badge stands for.                                    *)
(***************************************************************************)
DigitValue(c) == (CHOOSE i \in 1..10 : DigitChars[i] = c) - 1

RECURSIVE DigitsValue(_)
DigitsValue(s) ==
    IF s = <<>> THEN 0
    ELSE DigitsValue(SubSeq(s, 1, Len(s) - 1)) * 10 + DigitValue(s[Len(s)])

StripPercent(s) ==
    IF Len(s) > 0 /\ s[Len(s)] = "%" THEN SubSeq(s, 1, Len(s) - 1) ELSE s

DotPos(s) ==
    IF \E i \in 1..Len(s) : s[i] = "."
    THEN CHOOSE i \in 1..Len(s) : s[i] = "."
    ELSE 0

Hundredths(s) ==
    LET b == StripPercent(s)
        p == DotPos(b)
        whole == IF p = 0 THEN b ELSE SubSeq(b, 1, p - 1)
        frac == IF p = 0 THEN <<>> ELSE SubSeq(b, p + 1, Len(b))
        cents == IF Len(frac) = 0 THEN 0
                 ELSE IF Len(frac) = 1 THEN DigitValue(frac[1]) * 10
                 ELSE DigitsValue(SubSeq(frac, 1, 2))
    IN  DigitsValue(whole) * 100 + cents

ThresholdDirection(t) == t[1]

ThresholdValue(t) == Hundredths(SubSeq(t, 3, Len(t)))

MeetsThreshold(r) ==
    IF ThresholdDirection(r.threshold) = "<="
    THEN Hundredths(r.value) <= ThresholdValue(r.threshold)
    ELSE Hundredths(r.value) >= ThresholdValue(r.threshold)

DecisionOf(badge) ==
    IF badge \in {"Approve", "Approved", "Approval"} THEN "Approve"
    ELSE IF badge \in {"Conditional Approval", "Conditionally Approved"}
         THEN "ConditionalApproval"
    ELSE "Deny"

RatioIndex(r) == DOMAIN r.ratios

FailingRatios(r) == { i \in RatioIndex(r) : r.ratios[i].status = "fail" }

FailingNames(r) == { r.ratios[i].name : i \in FailingRatios(r) }

RatioNamed(r, n) == { i \in RatioIndex(r) : r.ratios[i].name = n }

NameDTI == <<"D","T","I">>

NameDSCR == <<"D","S","C","R">>

NameLTV == <<"L","T","V">>

(***************************************************************************)
(* C1.  Every ratio result's status is the outcome of comparing its value  *)
(* with its own threshold in the threshold's direction: pass exactly when  *)
(* value <= threshold for a "<=" threshold or value >= threshold for a     *)
(* ">=" threshold, fail otherwise.                                         *)
(***************************************************************************)
C1_StatusMatchesThreshold ==
    \A i \in RatioIndex(rendered) :
        rendered.ratios[i].status =
            IF MeetsThreshold(rendered.ratios[i]) THEN "pass" ELSE "fail"

\* A render after an event that shows a passing and a failing ratio.
C1_Witness ==
    /\ toggles = 1
    /\ \E i, j \in RatioIndex(rendered) :
          /\ MeetsThreshold(rendered.ratios[i])
          /\ rendered.ratios[i].status = "pass"
          /\ ~MeetsThreshold(rendered.ratios[j])
          /\ rendered.ratios[j].status = "fail"

(***************************************************************************)
(* C2.  The DTI value reported for the borrower record equals              *)
(* monthlyDebt x 12 / annualIncome of that record (16.9% for 85000 and     *)
(* 1200), to the display precision of a tenth of a percentage point, and   *)
(* its status is pass.  The dashboard reports 36%.                         *)
(***************************************************************************)
C2_DtiFromRecord ==
    \A i \in RatioNamed(rendered, NameDTI) :
        LET shown == Hundredths(rendered.ratios[i].value)
            debt == rendered.borrower.monthlyDebt * 12 * 10000
            income == rendered.borrower.annualIncome
            diff == shown * income - debt
        IN  /\ diff <= 10 * income
            /\ -diff <= 10 * income
            /\ rendered.ratios[i].status = "pass"

(***************************************************************************)
(* C3.  Each ratio is checked against the one threshold the policy table   *)
(* assigns to it: DTI against <= 28%, LTV against <= 80%, DSCR against     *)
(* >= 1.2.  The dashboard checks DTI against <= 43%.                       *)
(***************************************************************************)
PolicyThreshold(n) ==
    IF n = NameDTI THEN <<"<="," ","2","8","%">>
    ELSE IF n = NameLTV THEN <<"<="," ","8","0","%">>
    ELSE <<">="," ","1",".","2">>

C3_ThresholdIsTableEntry ==
    \A i \in RatioIndex(rendered) :
        rendered.ratios[i].threshold = PolicyThreshold(rendered.ratios[i].name)

(***************************************************************************)
(* C4.  The risk flags hold exactly one ratio flag for each failing ratio, *)
(* worded "<Ratio> below/above threshold (Required <op> <threshold>)" with *)
(* the ratio result's own threshold, and none for a passing ratio; for     *)
(* DSCR 0.95 against >= 1.2 the flag is                                    *)
(* "DSCR below threshold (Required >= 1.2)".                               *)
(***************************************************************************)
StartsWith(f, prefix) ==
    /\ Len(f) >= Len(prefix)
    /\ SubSeq(f, 1, Len(prefix)) = prefix

\* The flags that speak of the ratio named n.
FlagsAbout(r, n) ==
    { k \in DOMAIN r.flags : StartsWith(r.flags[k], n \o <<" ">>) }

\* The wording of the flag of a failing ratio: it fell below a ">=" threshold
\* or rose above a "<=" one.
FlagText(ratio) ==
    ratio.name
    \o (IF ThresholdDirection(ratio.threshold) = ">="
        THEN <<" ","b","e","l","o","w">>
        ELSE <<" ","a","b","o","v","e">>)
    \o <<" ","t","h","r","e","s","h","o","l","d"," ","(","R","e","q","u","i",
         "r","e","d"," ">>
    \o ratio.threshold
    \o <<")">>

C4_OneFlagPerFailingRatio ==
    \A i \in RatioIndex(rendered) :
        LET ratio == rendered.ratios[i]
            about == FlagsAbout(rendered, ratio.name)
        IN  IF ratio.status = "fail"
            THEN /\ Cardinality(about) = 1
                 /\ \A k \in about : rendered.flags[k] = FlagText(ratio)
            ELSE about = {}

\* A render after an event where DSCR 0.95 fails against >= 1.2 and the
\* DSCR flag is among the flags.
C4_Witness ==
    /\ toggles = 2
    /\ \E i \in FailingRatios(rendered) :
          /\ rendered.ratios[i].name = NameDSCR
          /\ Hundredths(rendered.ratios[i].value) = 95
          /\ ThresholdValue(rendered.ratios[i].threshold) = 120
          /\ \E k \in DOMAIN rendered.flags :
                rendered.flags[k] = FlagText(rendered.ratios[i])

(***************************************************************************)
(* C5.  When the only failing conditions are the DSCR-below-threshold flag *)
(* and the self-employed-income-without-proof flag, the decision is        *)
(* ConditionalApproval, neither Deny nor Approve, and it carries a         *)
(* follow-up request.                                                      *)
(***************************************************************************)
SelfEmployedFlag ==
    <<"S","e","l","f","-","e","m","p","l","o","y","e","d"," ","i","n","c",
      "o","m","e"," ","w","i","t","h","o","u","t"," ","2","-","y","e","a",
      "r"," ","p","r","o","o","f">>

OnlyDscrAndSelfEmployed(r) ==
    /\ FailingNames(r) = {NameDSCR}
    /\ Len(r.flags) = 2
    /\ \E k \in DOMAIN r.flags : StartsWith(r.flags[k], NameDSCR \o <<" ","b","e","l","o","w">>)
    /\ \E k \in DOMAIN r.flags : r.flags[k] = SelfEmployedFlag

C5_ConditionalApproval ==
    OnlyDscrAndSelfEmployed(rendered) =>
        /\ DecisionOf(rendered.badge) = "ConditionalApproval"
        /\ rendered.followUp # ""

\* A render after a reload with exactly the two conditions.
C5_Witness ==
    /\ OnlyDscrAndSelfEmployed(rendered)
    /\ clock > 0
    /\ toggles = 0
    /\ rendered.submitted = toLocaleDateString(clock)

(***************************************************************************)
(* C6.  The decision is Approve if and only if no ratio fails and the list *)
(* of risk flags is empty; with a failing ratio or a flag present it is    *)
(* not Approve.                                                            *)
(***************************************************************************)
C6_ApproveIffClean ==
    (DecisionOf(rendered.badge) = "Approve")
        <=> (FailingRatios(rendered) = {} /\ rendered.flags = <<>>)

\* A render with a failing ratio and flags present, and a decision shown.
C6_Witness ==
    /\ FailingRatios(rendered) # {}
    /\ rendered.flags # <<>>
    /\ DecisionOf(rendered.badge) # "Approve"
    /\ toggles = 3

(***************************************************************************)
(* C8.  A ratio is among the results only when the borrower record carries *)
(* every field its formula needs.  The dashboard's record has no loan      *)
(* amount, property value, operating income or debt service, and LTV and   *)
(* DSCR are among its results.                                             *)
(***************************************************************************)
RequiredFields(n) ==
    IF n = NameDTI THEN {"annualIncome", "monthlyDebt"}
    ELSE IF n = NameLTV THEN {"loanAmount", "propertyValue"}
    ELSE {"netOperatingIncome", "debtService"}

C8_RatioOnlyWithItsFields ==
    \A i \in RatioIndex(rendered) :
        RequiredFields(rendered.ratios[i].name) \subseteq DOMAIN rendered.borrower

(***************************************************************************)
(* C9.  Producing the ratios, the risk flags and the decision again yields *)
(* the same results: no render differs in them from the one before it,     *)
(* whatever the component's state and the clock.                           *)
(***************************************************************************)
Evaluation(r) ==
    [ ratios |-> r.ratios, flags |-> r.flags, badge |-> r.badge,
      headline |-> r.headline, followUp |-> r.followUp ]

C9_SameResultsEveryRender ==
    [][Evaluation(rendered') = Evaluation(rendered)]_vars

\* A second production of the results, in another state and on another day.
C9_Witness ==
    /\ auditTrailOpen
    /\ rendered.submitted # toLocaleDateString(0)
    /\ Evaluation(rendered) = Evaluation(Render(FALSE, 0))

(***************************************************************************)
(* C10.  The audit trail starts collapsed; every open-change event sets    *)
(* auditTrailOpen to the value it reports, so it is open exactly when the  *)
(* number of toggles is odd; the content is shown if and only if           *)
(* auditTrailOpen, and the header shows the down chevron when open and the *)
(* right chevron when closed.                                              *)
(***************************************************************************)
C10_AuditTrailOpenState ==
    /\ toggles = 0 => ~auditTrailOpen
    /\ lastEvent # NoEvent => auditTrailOpen = lastEvent[1]
    /\ auditTrailOpen <=> (toggles % 2 = 1)
    /\ rendered.contentShown <=> auditTrailOpen
    /\ rendered.chevron = IF auditTrailOpen THEN "ChevronDown" ELSE "ChevronRight"

\* Opened, closed and opened again.
C10_Witness ==
    /\ toggles = 3
    /\ auditTrailOpen
    /\ rendered.contentShown
    /\ rendered.chevron = "ChevronDown"

(***************************************************************************)
(* C7.  A non-positive denominator (annualIncome, property value, credit   *)
(* limit, debt service) makes the evaluation fail with an                  *)
(* InvalidInputError naming an offending field, and no ratio result comes  *)
(* of it: annualIncome = 0 gives an error naming "annualIncome", a         *)
(* negative income is rejected too, and no result holds Infinity or NaN.   *)
(***************************************************************************)
NonPositiveDenominators(rec) ==
    { DenominatorFields[i] : i \in { j \in DOMAIN DenominatorFields :
          Has(rec, DenominatorFields[j]) /\ rec[DenominatorFields[j]] <= 0 } }

C7_NonPositiveDenominatorRejected ==
    result # NotEvaluated =>
        /\ NonPositiveDenominators(record) # {} =>
              /\ result.kind = "InvalidInputError"
              /\ result.field \in NonPositiveDenominators(record)
              /\ result.ratios = <<>>
        /\ record.annualIncome <= 0 => result.field = "annualIncome"
        /\ NonPositiveDenominators(record) = {} => result.kind = "ok"
        /\ \A i \in DOMAIN result.ratios : result.ratios[i].value.kind = "number"

\* annualIncome = 0, evaluated: the error names annualIncome.
C7_Witness ==
    /\ record.annualIncome = 0
    /\ result.kind = "InvalidInputError"
    /\ result.field = "annualIncome"
    /\ result.ratios = <<>>

(***************************************************************************)
(* C11.  Opening or closing the audit trail changes only auditTrailOpen:   *)
(* the borrower data, the ratio results, the risk flags, the decision and  *)
(* the follow-up text are the same after a toggle as before it, and so     *)
(* after any sequence of toggles.                                          *)
(***************************************************************************)
Application(r) ==
    [ borrower |-> r.borrower, ratios |-> r.ratios, flags |-> r.flags,
      badge |-> r.badge, headline |-> r.headline, followUp |-> r.followUp ]

C11_ToggleChangesOnlyOpenState ==
    [][toggles' = toggles + 1 =>
          /\ auditTrailOpen' = ~auditTrailOpen
          /\ Application(rendered') = Application(rendered)
          /\ <<clock, record, result>>' = <<clock, record, result>>]_vars

\* Opened and closed twice over: the application is as first rendered.
C11_Witness ==
    /\ toggles = 4
    /\ ~auditTrailOpen
    /\ ~rendered.contentShown
    /\ Application(rendered) = Application(Render(FALSE, 0))

(***************************************************************************)
(* C12.  The "Application submitted" date of the audit trail is read from  *)
(* the clock on every render, not stored with the application: a render    *)
(* shows the date of the clock reading at that render, so a render on      *)
(* another date than the one before shows another text, while the borrower *)
(* data, ratios, flags and decision are the same in both.                  *)
(***************************************************************************)
\* The day (counted from 0) a submitted text names: the digits between its
\* two slashes.
SubmittedDay(text) == DigitsValue(SubSeq(text, 3, Len(text) - 5)) - 1

DayOf(now) == now \div TicksPerDay

\* Every step that leaves the clock alone is a render (a toggle or a mount).
C12_SubmittedDateReadAtRender ==
    [][clock' = clock =>
          /\ rendered'.submitted = toLocaleDateString(clock)
          /\ SubmittedDay(rendered'.submitted) = DayOf(clock)
          /\ SubmittedDay(rendered.submitted) # DayOf(clock)
                => rendered'.submitted # rendered.submitted
          /\ SubmittedDay(rendered.submitted) = DayOf(clock)
                => rendered'.submitted = rendered.submitted
          /\ Application(rendered') = Application(rendered)]_vars

\* The same application rendered again two days after its first render: the
\* text names the third day, the rest is as first rendered.
C12_Witness ==
    /\ SubmittedDay(rendered.submitted) = 2
    /\ rendered.submitted # Render(FALSE, 0).submitted
    /\ Application(rendered) = Application(Render(FALSE, 0))
    /\ toggles = 1

====
